---- MODULE Spec2Model ----
(***************************************************************************)
(* Model of resourcemanager/identity/system_or_single_user_assigned_map.go *)
(*                                                                         *)
(* The file converts an "identity" block between three shapes: the schema  *)
(* input (an untyped []interface{} or a typed model slice), the in-memory  *)
(* SystemOrSingleUserAssignedMap struct, and the JSON object sent on the  *)
(* wire.  Each exported function is one action; a caller holds one struct  *)
(* pointer (obj) and the values returned by its last call (ret, err).      *)
(***************************************************************************)
EXTENDS Integers, Sequences, FiniteSets, TLC

VARIABLES op, input, obj, ret, err

vars == <<op, input, obj, ret, err>>

(* Largest number of identity IDs carried by an input or by a struct. *)
MaxIds == 2

-----------------------------------------------------------------------------
(* The identity.Type string values.                                        *)

TypeNone == "None"

TypeSystemAssigned == "SystemAssigned"

TypeUserAssigned == "UserAssigned"

TypeSystemAssignedUserAssigned == "SystemAssigned, UserAssigned"

Types == {TypeNone, TypeSystemAssigned, TypeUserAssigned, TypeSystemAssignedUserAssigned}

(* Identity ID strings: two canonical IDs, a differently-cased spelling of *)
(* the first one, and a string that is not a resource ID.                  *)
IDStrings == {"/resourceGroups/a", "/RESOURCEGROUPS/a", "/resourceGroups/b", "not-an-id"}

(* <<PrincipalId, TenantId>>: unset (a client-side value) or set by the server. *)
ServerFields == {<<"", "">>, <<"principal-1", "tenant-1">>}

(* UserAssignedIdentityDetails: the zero value and a server-populated one. *)
EmptyDetails == [ClientId |-> "", PrincipalId |-> ""]

PopulatedDetails == [ClientId |-> "client-1", PrincipalId |-> "principal-1"]

DetailsValues == {EmptyDetails, PopulatedDetails}

(* A nil pointer (and the nil value of the returns). *)
Nil == [nil |-> TRUE]

(* error values: nil, or fmt.Errorf(format, arg) *)
NoError == [format |-> "nil", arg |-> ""]

Errorf(format, arg) == [format |-> format, arg |-> arg]

(* The three validation messages; the source writes identity_ids and type  *)
(* between backquotes, which a TLA+ string cannot hold.                    *)
ErrMustBeSpecified == Errorf("identity_ids must be specified when type is set to %q", TypeUserAssigned)

ErrSingleIdentity == Errorf("identity_ids can only contain a single identity ID when type is set to %q", TypeUserAssigned)

ErrOnlyUserAssigned == Errorf("identity_ids can only be specified when type is set to %q", TypeUserAssigned)

ErrParsing(raw) == Errorf("parsing %q as a User Assigned Identity ID: %+v", raw)

-----------------------------------------------------------------------------
(* Helpers over sets and sequences.                                        *)

Range(s) == {s[i] : i \in DOMAIN s}

SmallSubsets(S) == {T \in SUBSET S : Cardinality(T) <= MaxIds}

SeqsUpTo(S, n) == UNION {[1..k -> S] : k \in 0..n}

RECURSIVE Perms(_)
Perms(S) == IF S = {} THEN {<<>>}
            ELSE UNION {{<<x>> \o p : p \in Perms(S \ {x})} : x \in S}

(* len(m) of a Go map *)
len(m) == Cardinality(DOMAIN m)

-----------------------------------------------------------------------------
(* The struct and the two input shapes.                                    *)

SystemOrSingleUserAssignedMap(t, principalId, tenantId, identityIds) ==
    [Type |-> t, PrincipalId |-> principalId, TenantId |-> tenantId, IdentityIds |-> identityIds]

(* Every struct a caller can build or decode from an API response. *)
Structs ==
    {SystemOrSingleUserAssignedMap(t, f[1], f[2], m) :
        t \in Types, f \in ServerFields,
        m \in UNION {[K -> DetailsValues] : K \in SmallSubsets(IDStrings)}}

(* input []interface{}: empty, or one map with "type" and "identity_ids" (a *schema.Set) *)
UntypedInputs ==
    {<<>>} \cup {<<[type |-> t, identity_ids |-> s]>> : t \in Types, s \in SmallSubsets(IDStrings)}

(* input []ModelSystemAssignedUserAssigned: empty, or one model *)
TypedInputs ==
    {<<>>} \cup {<<[Type |-> t, IdentityIds |-> s, PrincipalId |-> f[1], TenantId |-> f[2]]>> :
                    t \in Types, s \in SeqsUpTo(IDStrings, MaxIds), f \in ServerFields}

NoInput == [shape |-> "none", list |-> <<>>]

-----------------------------------------------------------------------------
(* Collaborators that live outside this file.                              *)

(* normalizeType: anything that is not one of the three handled kinds is   *)
(* folded to None.                                                         *)
normalizeType(t) ==
    IF t \in {TypeNone, TypeSystemAssigned, TypeUserAssigned} THEN t ELSE TypeNone

(* commonids.ParseUserAssignedIdentityIDInsensitively followed by id.ID():  *)
(* the static segments are matched without regard to case and re-rendered  *)
(* in their canonical casing; anything else is a parse error.              *)
ParseUserAssignedIdentityIDInsensitively(raw) ==
    CASE raw = "/resourceGroups/a" -> [ok |-> TRUE, ID |-> "/resourceGroups/a"]
      [] raw = "/RESOURCEGROUPS/a" -> [ok |-> TRUE, ID |-> "/resourceGroups/a"]
      [] raw = "/resourceGroups/b" -> [ok |-> TRUE, ID |-> "/resourceGroups/b"]
      [] OTHER -> [ok |-> FALSE, ID |-> ""]

(* JSON values produced by encoding/json *)
JSONNull == [json |-> "null"]

JSONString(s) == [json |-> "string", value |-> s]

JSONObject(members) == [json |-> "object", members |-> members]

(* UserAssignedIdentityDetails is encoded as an empty object. *)
MarshalDetails(d) == JSONObject([k \in {} |-> JSONNull])

-----------------------------------------------------------------------------
(* MarshalJSON (lines 23-49)                                               *)

(* Mutant: the len(userAssignedIdentityIds) > 0 test is dropped, so an     *)
(* empty map is emitted as an empty object.                                *)
MarshalJSON_NoLenCheck(s) ==
    LET identityType ==
            IF s = Nil THEN TypeNone
            ELSE IF s.Type = TypeUserAssigned THEN TypeUserAssigned
            ELSE IF s.Type = TypeSystemAssigned THEN TypeSystemAssigned
            ELSE TypeNone
        userAssignedIdentityIds ==
            IF s # Nil /\ identityType # TypeNone THEN s.IdentityIds
            ELSE [k \in {} |-> EmptyDetails]
    IN  JSONObject(
          [type |-> JSONString(identityType),
           userAssignedIdentities |->
              JSONObject([k \in DOMAIN userAssignedIdentityIds |->
                             MarshalDetails(userAssignedIdentityIds[k])])])

(* Mutant: the identityType != TypeNone test is dropped, so the IDs of a   *)
(* value of kind None are emitted.                                         *)
MarshalJSON_NoTypeGate(s) ==
    LET identityType ==
            IF s = Nil THEN TypeNone
            ELSE IF s.Type = TypeUserAssigned THEN TypeUserAssigned
            ELSE IF s.Type = TypeSystemAssigned THEN TypeSystemAssigned
            ELSE TypeNone
        userAssignedIdentityIds ==
            IF s # Nil THEN s.IdentityIds
            ELSE [k \in {} |-> EmptyDetails]
    IN  JSONObject(
          [type |-> JSONString(identityType),
           userAssignedIdentities |->
              IF len(userAssignedIdentityIds) > 0
              THEN JSONObject([k \in DOMAIN userAssignedIdentityIds |->
                                  MarshalDetails(userAssignedIdentityIds[k])])
              ELSE JSONNull])

MarshalJSON(s) ==
    LET identityType ==
            IF s = Nil THEN TypeNone
            ELSE IF s.Type = TypeUserAssigned THEN TypeUserAssigned
            ELSE IF s.Type = TypeSystemAssigned THEN TypeSystemAssigned
            ELSE TypeNone
        userAssignedIdentityIds ==
            IF s # Nil /\ identityType # TypeNone THEN s.IdentityIds
            ELSE [k \in {} |-> EmptyDetails]
    IN  JSONObject(
          [type |-> JSONString(identityType),
           userAssignedIdentities |->
              IF len(userAssignedIdentityIds) > 0
              THEN JSONObject([k \in DOMAIN userAssignedIdentityIds |->
                                  MarshalDetails(userAssignedIdentityIds[k])])
              ELSE JSONNull])

-----------------------------------------------------------------------------
(* ExpandSystemOrSingleUserAssignedMap (lines 52-94)                       *)

(* Mutant: the SystemAssigned check is dropped. *)
ExpandSystemOrSingleUserAssignedMap_NoSystemCheck(in) ==
    LET typeRaw == in[1].type
        identityType ==
            IF Len(in) > 0
            THEN IF typeRaw = TypeUserAssigned THEN TypeUserAssigned
                 ELSE IF typeRaw = TypeSystemAssigned THEN TypeSystemAssigned
                 ELSE TypeNone
            ELSE TypeNone
        identityIds ==
            IF Len(in) > 0 THEN [v \in in[1].identity_ids |-> EmptyDetails]
            ELSE [v \in {} |-> EmptyDetails]
    IN  IF identityType = TypeUserAssigned /\ len(identityIds) = 0
        THEN [identity |-> Nil, err |-> ErrMustBeSpecified]
        ELSE IF identityType = TypeUserAssigned /\ len(identityIds) > 1
        THEN [identity |-> Nil, err |-> ErrSingleIdentity]
        ELSE [identity |-> SystemOrSingleUserAssignedMap(identityType, "", "", identityIds),
              err |-> NoError]

ExpandSystemOrSingleUserAssignedMap(in) ==
    LET typeRaw == in[1].type
        identityType ==
            IF Len(in) > 0
            THEN IF typeRaw = TypeUserAssigned THEN TypeUserAssigned
                 ELSE IF typeRaw = TypeSystemAssigned THEN TypeSystemAssigned
                 ELSE TypeNone
            ELSE TypeNone
        identityIds ==
            IF Len(in) > 0 THEN [v \in in[1].identity_ids |-> EmptyDetails]
            ELSE [v \in {} |-> EmptyDetails]
    IN  IF identityType = TypeUserAssigned /\ len(identityIds) = 0
        THEN [identity |-> Nil, err |-> ErrMustBeSpecified]
        ELSE IF identityType = TypeUserAssigned /\ len(identityIds) > 1
        THEN [identity |-> Nil, err |-> ErrSingleIdentity]
        ELSE IF len(identityIds) > 0 /\ identityType = TypeSystemAssigned
        THEN [identity |-> Nil, err |-> ErrOnlyUserAssigned]
        ELSE [identity |-> SystemOrSingleUserAssignedMap(identityType, "", "", identityIds),
              err |-> NoError]

(* ExpandSystemOrSingleUserAssignedMapFromModel (lines 127-162)            *)

(* Mutant: the two UserAssigned checks are swapped for one test, len != 1, *)
(* that always reports "must be specified".                                *)
ExpandSystemOrSingleUserAssignedMapFromModel_OneMessage(in) ==
    IF Len(in) = 0
    THEN [identity |-> SystemOrSingleUserAssignedMap(TypeNone, "", "", [v \in {} |-> EmptyDetails]),
          err |-> NoError]
    ELSE
    LET identity == in[1]
        identityIds == [v \in Range(identity.IdentityIds) |-> EmptyDetails]
    IN  IF identity.Type = TypeUserAssigned /\ len(identityIds) # 1
        THEN [identity |-> Nil, err |-> ErrMustBeSpecified]
        ELSE IF len(identityIds) > 0 /\ identity.Type = TypeSystemAssigned
        THEN [identity |-> Nil, err |-> ErrOnlyUserAssigned]
        ELSE [identity |-> SystemOrSingleUserAssignedMap(identity.Type, "", "", identityIds),
              err |-> NoError]

(* Mutant: the empty list yields a nil struct instead of a None identity. *)
ExpandSystemOrSingleUserAssignedMapFromModel_NilOnEmpty(in) ==
    IF Len(in) = 0
    THEN [identity |-> Nil, err |-> NoError]
    ELSE
    LET identity == in[1]
        identityIds == [v \in Range(identity.IdentityIds) |-> EmptyDetails]
    IN  IF identity.Type = TypeUserAssigned /\ len(identityIds) = 0
        THEN [identity |-> Nil, err |-> ErrMustBeSpecified]
        ELSE IF identity.Type = TypeUserAssigned /\ len(identityIds) > 1
        THEN [identity |-> Nil, err |-> ErrSingleIdentity]
        ELSE IF len(identityIds) > 0 /\ identity.Type = TypeSystemAssigned
        THEN [identity |-> Nil, err |-> ErrOnlyUserAssigned]
        ELSE [identity |-> SystemOrSingleUserAssignedMap(identity.Type, "", "", identityIds),
              err |-> NoError]

ExpandSystemOrSingleUserAssignedMapFromModel(in) ==
    IF Len(in) = 0
    THEN [identity |-> SystemOrSingleUserAssignedMap(TypeNone, "", "", [v \in {} |-> EmptyDetails]),
          err |-> NoError]
    ELSE
    LET identity == in[1]
        identityIds == [v \in Range(identity.IdentityIds) |-> EmptyDetails]
    IN  IF identity.Type = TypeUserAssigned /\ len(identityIds) = 0
        THEN [identity |-> Nil, err |-> ErrMustBeSpecified]
        ELSE IF identity.Type = TypeUserAssigned /\ len(identityIds) > 1
        THEN [identity |-> Nil, err |-> ErrSingleIdentity]
        ELSE IF len(identityIds) > 0 /\ identity.Type = TypeSystemAssigned
        THEN [identity |-> Nil, err |-> ErrOnlyUserAssigned]
        ELSE [identity |-> SystemOrSingleUserAssignedMap(identity.Type, "", "", identityIds),
              err |-> NoError]

-----------------------------------------------------------------------------
(* The two Flatten functions (lines 97-124 and 165-192)                    *)

(* The loop `for raw := range input.IdentityIds`, run over the keys in the *)
(* order the map iteration happens to yield them: it stops at the first    *)
(* key that does not parse.                                                *)
(* Mutant: the loop appends the raw key instead of id.ID(). *)
RECURSIVE ParseLoop_AppendsRaw(_)
ParseLoop_AppendsRaw(order) ==
    IF order = <<>> THEN [err |-> NoError, identityIds |-> <<>>]
    ELSE LET raw == Head(order)
             id == ParseUserAssignedIdentityIDInsensitively(raw)
         IN  IF ~id.ok THEN [err |-> ErrParsing(raw), identityIds |-> <<>>]
             ELSE LET rest == ParseLoop_AppendsRaw(Tail(order))
                  IN  IF rest.err # NoError THEN rest
                      ELSE [err |-> NoError, identityIds |-> <<raw>> \o rest.identityIds]

RECURSIVE ParseLoop(_)
ParseLoop(order) ==
    IF order = <<>> THEN [err |-> NoError, identityIds |-> <<>>]
    ELSE LET raw == Head(order)
             id == ParseUserAssignedIdentityIDInsensitively(raw)
         IN  IF ~id.ok THEN [err |-> ErrParsing(raw), identityIds |-> <<>>]
             ELSE LET rest == ParseLoop(Tail(order))
                  IN  IF rest.err # NoError THEN rest
                      ELSE [err |-> NoError, identityIds |-> <<id.ID>> \o rest.identityIds]

UntypedElement(s, identityIds) ==
    [type |-> s.Type, identity_ids |-> identityIds,
     principal_id |-> s.PrincipalId, tenant_id |-> s.TenantId]

TypedElement(s, identityIds) ==
    [Type |-> s.Type, IdentityIds |-> identityIds,
     PrincipalId |-> s.PrincipalId, TenantId |-> s.TenantId]

(* Mutant: the test on the normalized type is dropped, so a value of kind  *)
(* None is flattened into an element too.                                  *)
FlattenSystemOrSingleUserAssignedMap_NoTypeCheck(in) ==
    IF in = Nil
    THEN {[input |-> Nil, ret |-> [list |-> <<>>], err |-> NoError]}
    ELSE LET s == [in EXCEPT !.Type = normalizeType(in.Type)]
         IN  {LET r == ParseLoop(order)
              IN  IF r.err # NoError
                  THEN [input |-> s, ret |-> Nil, err |-> r.err]
                  ELSE [input |-> s,
                        ret |-> [list |-> <<UntypedElement(s, r.identityIds)>>],
                        err |-> NoError]
              : order \in Perms(DOMAIN s.IdentityIds)}

(* Mutant: the rendered IDs are written back into input.IdentityIds. *)
FlattenSystemOrSingleUserAssignedMapToModel_WritesIds(in) ==
    IF in = Nil
    THEN {[input |-> Nil, ret |-> [list |-> <<>>], err |-> NoError]}
    ELSE LET s == [in EXCEPT !.Type = normalizeType(in.Type)]
         IN  IF s.Type # TypeSystemAssigned /\ s.Type # TypeUserAssigned
             THEN {[input |-> s, ret |-> [list |-> <<>>], err |-> NoError]}
             ELSE {LET r == ParseLoop(order)
                   IN  IF r.err # NoError
                       THEN [input |-> s, ret |-> Nil, err |-> r.err]
                       ELSE [input |-> [s EXCEPT !.IdentityIds =
                                            [k \in Range(r.identityIds) |-> EmptyDetails]],
                             ret |-> [list |-> <<TypedElement(s, r.identityIds)>>],
                             err |-> NoError]
                   : order \in Perms(DOMAIN s.IdentityIds)}

(* One outcome per iteration order of the map: the struct the pointer      *)
(* refers to afterwards, the returned list pointer and the error.          *)
FlattenSystemOrSingleUserAssignedMap(in) ==
    IF in = Nil
    THEN {[input |-> Nil, ret |-> [list |-> <<>>], err |-> NoError]}
    ELSE LET s == [in EXCEPT !.Type = normalizeType(in.Type)]
         IN  IF s.Type # TypeSystemAssigned /\ s.Type # TypeUserAssigned
             THEN {[input |-> s, ret |-> [list |-> <<>>], err |-> NoError]}
             ELSE {LET r == ParseLoop(order)
                   IN  IF r.err # NoError
                       THEN [input |-> s, ret |-> Nil, err |-> r.err]
                       ELSE [input |-> s,
                             ret |-> [list |-> <<UntypedElement(s, r.identityIds)>>],
                             err |-> NoError]
                   : order \in Perms(DOMAIN s.IdentityIds)}

FlattenSystemOrSingleUserAssignedMapToModel(in) ==
    IF in = Nil
    THEN {[input |-> Nil, ret |-> [list |-> <<>>], err |-> NoError]}
    ELSE LET s == [in EXCEPT !.Type = normalizeType(in.Type)]
         IN  IF s.Type # TypeSystemAssigned /\ s.Type # TypeUserAssigned
             THEN {[input |-> s, ret |-> [list |-> <<>>], err |-> NoError]}
             ELSE {LET r == ParseLoop(order)
                   IN  IF r.err # NoError
                       THEN [input |-> s, ret |-> Nil, err |-> r.err]
                       ELSE [input |-> s,
                             ret |-> [list |-> <<TypedElement(s, r.identityIds)>>],
                             err |-> NoError]
                   : order \in Perms(DOMAIN s.IdentityIds)}

-----------------------------------------------------------------------------
(* The state machine: a caller and the calls it makes.                     *)

Init ==
    /\ op = "init"
    /\ input = NoInput
    /\ obj = Nil
    /\ ret = Nil
    /\ err = NoError

(* The caller builds a struct itself or decodes one from an API response. *)
Construct ==
    /\ \E s \in Structs \cup {Nil} : obj' = s
    /\ op' = "Construct"
    /\ input' = NoInput
    /\ ret' = Nil
    /\ err' = NoError

ExpandUntyped ==
    \E in \in UntypedInputs :
        LET r == ExpandSystemOrSingleUserAssignedMap(in)
        IN  /\ op' = "ExpandUntyped"
            /\ input' = [shape |-> "untyped", list |-> in]
            /\ obj' = r.identity
            /\ ret' = r.identity
            /\ err' = r.err

ExpandTyped ==
    \E in \in TypedInputs :
        LET r == ExpandSystemOrSingleUserAssignedMapFromModel(in)
        IN  /\ op' = "ExpandTyped"
            /\ input' = [shape |-> "typed", list |-> in]
            /\ obj' = r.identity
            /\ ret' = r.identity
            /\ err' = r.err

FlattenUntyped ==
    \E out \in FlattenSystemOrSingleUserAssignedMap(obj) :
        /\ op' = "FlattenUntyped"
        /\ obj' = out.input
        /\ ret' = out.ret
        /\ err' = out.err
        /\ UNCHANGED input

FlattenTyped ==
    \E out \in FlattenSystemOrSingleUserAssignedMapToModel(obj) :
        /\ op' = "FlattenTyped"
        /\ obj' = out.input
        /\ ret' = out.ret
        /\ err' = out.err
        /\ UNCHANGED input

Serialize ==
    /\ op' = "Serialize"
    /\ ret' = MarshalJSON(obj)
    /\ err' = NoError
    /\ UNCHANGED <<input, obj>>

Next ==
    \/ Construct
    \/ ExpandUntyped
    \/ ExpandTyped
    \/ FlattenUntyped
    \/ FlattenTyped
    \/ Serialize

Spec == Init /\ [][Next]_vars

-----------------------------------------------------------------------------
(* Views of the state used by the properties below.                        *)

ExpandOps == {"ExpandUntyped", "ExpandTyped"}

FlattenOps == {"FlattenUntyped", "FlattenTyped"}

(* The type, the set of IDs and the number of ID entries of a non-empty Expand input. *)
InputType == IF input.shape = "untyped" THEN input.list[1].type ELSE input.list[1].Type

InputIds == IF input.shape = "untyped" THEN input.list[1].identity_ids
            ELSE Range(input.list[1].IdentityIds)

InputEntries == IF input.shape = "untyped" THEN Cardinality(input.list[1].identity_ids)
                ELSE Len(input.list[1].IdentityIds)

ExpandedOne == op \in ExpandOps /\ Len(input.list) > 0

(* The fields of the element of a flattened list, in either shape. *)
ElemType(o, e) == IF o = "FlattenUntyped" THEN e.type ELSE e.Type

ElemIds(o, e) == IF o = "FlattenUntyped" THEN e.identity_ids ELSE e.IdentityIds

ElemPrincipalId(o, e) == IF o = "FlattenUntyped" THEN e.principal_id ELSE e.PrincipalId

ElemTenantId(o, e) == IF o = "FlattenUntyped" THEN e.tenant_id ELSE e.TenantId

Rendered(raw) == ParseUserAssignedIdentityIDInsensitively(raw).ID

Parses(raw) == ParseUserAssignedIdentityIDInsensitively(raw).ok

CanonicalIDs == {id \in IDStrings : Parses(id) /\ Rendered(id) = id}

-----------------------------------------------------------------------------
(* C1: a value returned without error by either Expand function has        *)
(* exactly one identity ID if its kind is UserAssigned and none otherwise. *)
(* The code returns kind None (or, from the typed input, the combined      *)
(* kind) together with the IDs it was given.                               *)
C1_ExpandedIdsMatchKind ==
    (op \in ExpandOps /\ err = NoError) =>
        /\ obj.Type = TypeUserAssigned => len(obj.IdentityIds) = 1
        /\ obj.Type # TypeUserAssigned => len(obj.IdentityIds) = 0

(* C2 as stated: with type UserAssigned, zero IDs fail with the "must be   *)
(* specified" message and more than one ID -- for the typed input, a       *)
(* sequence with more than one entry -- with the "single identity" one.    *)
C2_Original ==
    (ExpandedOne /\ InputType = TypeUserAssigned) =>
        /\ InputEntries = 0 => err = ErrMustBeSpecified
        /\ InputEntries > 1 => err = ErrSingleIdentity

(* C2 amended: with type UserAssigned, zero IDs fail with the "must be     *)
(* specified" message and more than one distinct ID with the "single       *)
(* identity" message; no value is returned.                                *)
C2_UserAssignedNeedsOneId ==
    (ExpandedOne /\ InputType = TypeUserAssigned) =>
        /\ Cardinality(InputIds) = 0 => (err = ErrMustBeSpecified /\ ret = Nil)
        /\ Cardinality(InputIds) > 1 => (err = ErrSingleIdentity /\ ret = Nil)

C2_Witness ==
    /\ op = "ExpandTyped" /\ Len(input.list) > 0
    /\ InputType = TypeUserAssigned
    /\ Cardinality(InputIds) = 2
    /\ err = ErrSingleIdentity

(* C3: with type SystemAssigned and one or more IDs, both Expand functions *)
(* fail with the "can only be specified" message and return no value.      *)
C3_SystemAssignedTakesNoIds ==
    (ExpandedOne /\ InputType = TypeSystemAssigned /\ InputIds # {}) =>
        (err = ErrOnlyUserAssigned /\ ret = Nil /\ obj = Nil)

C3_Witness ==
    /\ op = "ExpandUntyped" /\ Len(input.list) > 0
    /\ InputType = TypeSystemAssigned
    /\ Cardinality(InputIds) = 1
    /\ err = ErrOnlyUserAssigned

(* The typed input rewritten in the untyped shape. *)
AsUntyped(list) ==
    IF list = <<>> THEN <<>>
    ELSE <<[type |-> list[1].Type, identity_ids |-> Range(list[1].IdentityIds)]>>

(* C4: the typed Expand agrees with the untyped Expand on the same data:   *)
(* the same error, or the same kind and the same identity-ID set.          *)
C4_TypedAgreesWithUntyped ==
    op = "ExpandTyped" =>
        LET u == ExpandSystemOrSingleUserAssignedMap(AsUntyped(input.list))
        IN  /\ u.err = err
            /\ err = NoError =>
                 /\ u.identity.Type = obj.Type
                 /\ DOMAIN u.identity.IdentityIds = DOMAIN obj.IdentityIds

(* C8: for the empty list both Expand functions succeed with kind None, no *)
(* identity IDs and unset principalId and tenantId.                        *)
C8_EmptyListExpandsToNone ==
    (op \in ExpandOps /\ input.list = <<>>) =>
        /\ err = NoError
        /\ obj # Nil
        /\ ret = obj
        /\ obj.Type = TypeNone
        /\ DOMAIN obj.IdentityIds = {}
        /\ obj.PrincipalId = ""
        /\ obj.TenantId = ""

C8_Witness ==
    /\ op = "ExpandTyped"
    /\ input.list = <<>>
    /\ obj # Nil
    /\ obj.Type = TypeNone

-----------------------------------------------------------------------------
(* Round trip: the state after a Flatten of what the matching Expand       *)
(* returned for the recorded input.                                        *)
RoundTrip ==
    /\ obj # Nil
    /\ \/ input.shape = "untyped" /\ op = "FlattenUntyped"
       \/ input.shape = "typed" /\ op = "FlattenTyped"

(* The type and the ID set of the input, the empty list read as None with no IDs. *)
GivenType == IF input.list = <<>> THEN TypeNone ELSE InputType

GivenIds == IF input.list = <<>> THEN {} ELSE InputIds

(* The type and the ID set of the flattened list, the empty list read as None with no IDs. *)
FlatType == IF ret.list = <<>> THEN TypeNone ELSE ElemType(op, ret.list[1])

FlatIds == IF ret.list = <<>> THEN {} ELSE Range(ElemIds(op, ret.list[1]))

(* C5 as stated: for an accepted input whose IDs are in canonical form,    *)
(* Flatten(Expand(x)) succeeds with the type and the ID set of x.          *)
C5_Original ==
    (RoundTrip /\ GivenIds \subseteq CanonicalIDs) =>
        /\ err = NoError
        /\ FlatType = GivenType
        /\ FlatIds = GivenIds

(* C5 amended: for an accepted one-element input of type SystemAssigned or *)
(* UserAssigned whose IDs parse, Flatten(Expand(x)) succeeds with one      *)
(* element of the same type whose IDs are the canonical renderings of the  *)
(* IDs of x (the IDs of x when these are canonical already); for the empty *)
(* list and for every other type it is the empty list.                     *)
C5_RoundTrip ==
    (RoundTrip /\ \A id \in GivenIds : Parses(id)) =>
        /\ err = NoError
        /\ IF input.list # <<>> /\ InputType \in {TypeSystemAssigned, TypeUserAssigned}
           THEN /\ Len(ret.list) = 1
                /\ FlatType = InputType
                /\ FlatIds = {Rendered(id) : id \in InputIds}
                /\ InputIds \subseteq CanonicalIDs => FlatIds = InputIds
           ELSE ret.list = <<>>

C5_Witness ==
    /\ RoundTrip
    /\ op = "FlattenUntyped"
    /\ input.list # <<>>
    /\ InputType = TypeUserAssigned
    /\ InputIds = {"/RESOURCEGROUPS/a"}
    /\ err = NoError
    /\ FlatIds = {"/resourceGroups/a"}

-----------------------------------------------------------------------------
(* The type Serialize resolves for its input, and the emitted object. *)
ResolvedType ==
    IF obj = Nil THEN TypeNone
    ELSE IF obj.Type \in {TypeSystemAssigned, TypeUserAssigned} THEN obj.Type
    ELSE TypeNone

EmittedType == ret.members.type

EmittedIdentities == ret.members.userAssignedIdentities

EmptyObject == JSONObject([k \in {} |-> JSONNull])

(* userAssignedIdentities is a mapping with one entry per identity ID of   *)
(* the input, each an empty object.                                        *)
OneEntryPerId ==
    /\ EmittedIdentities.json = "object"
    /\ DOMAIN EmittedIdentities.members = DOMAIN obj.IdentityIds
    /\ \A k \in DOMAIN obj.IdentityIds : EmittedIdentities.members[k] = EmptyObject

(* C6 as stated: userAssignedIdentities is null if the resolved type is    *)
(* None and otherwise a mapping with one entry per identity ID.            *)
C6_Original ==
    op = "Serialize" =>
        IF ResolvedType = TypeNone THEN EmittedIdentities = JSONNull ELSE OneEntryPerId

(* C6 amended: userAssignedIdentities is null if the resolved type is None *)
(* or the input has no identity IDs, and otherwise a mapping with one      *)
(* entry per identity ID, each an empty object.                            *)
C6_IdentitiesNullOrMapping ==
    op = "Serialize" =>
        IF ResolvedType = TypeNone \/ DOMAIN obj.IdentityIds = {}
        THEN EmittedIdentities = JSONNull
        ELSE OneEntryPerId

C6_Witness ==
    /\ op = "Serialize"
    /\ obj # Nil
    /\ obj.Type = TypeUserAssigned
    /\ len(obj.IdentityIds) = 2
    /\ \E k \in DOMAIN obj.IdentityIds : obj.IdentityIds[k] = PopulatedDetails
    /\ OneEntryPerId

NoneObject == JSONObject([type |-> JSONString(TypeNone), userAssignedIdentities |-> JSONNull])

(* C7 as stated: a value of kind None, or with no identity IDs whatever    *)
(* its kind, serializes to type None with userAssignedIdentities null.     *)
C7_Original ==
    (op = "Serialize" /\ obj # Nil /\ (obj.Type = TypeNone \/ DOMAIN obj.IdentityIds = {})) =>
        ret = NoneObject

(* C7 amended: a value of kind None serializes to type None with           *)
(* userAssignedIdentities null; a value with no identity IDs serializes to *)
(* its resolved type (its kind if that is SystemAssigned or UserAssigned,  *)
(* None otherwise) with userAssignedIdentities null.                       *)
C7_NoneOrNoIds ==
    (op = "Serialize" /\ obj # Nil) =>
        /\ obj.Type = TypeNone => ret = NoneObject
        /\ DOMAIN obj.IdentityIds = {} =>
             ret = JSONObject([type |-> JSONString(ResolvedType),
                               userAssignedIdentities |-> JSONNull])

C7_Witness ==
    /\ op = "Serialize"
    /\ obj # Nil
    /\ obj.Type = TypeSystemAssigned
    /\ DOMAIN obj.IdentityIds = {}
    /\ EmittedType = JSONString(TypeSystemAssigned)
    /\ EmittedIdentities = JSONNull

-----------------------------------------------------------------------------
(* C9: Flatten returns the empty list and no error for a nil input and for *)
(* a normalized kind other than SystemAssigned and UserAssigned, whatever  *)
(* IDs the value carries; otherwise, when every ID parses, it returns one  *)
(* element with the normalized kind, one rendered ID per identityIds entry *)
(* (in some order) and the input's principalId and tenantId.               *)
C9_Step ==
    op' \in FlattenOps =>
        IF obj = Nil \/ normalizeType(obj.Type) \notin {TypeSystemAssigned, TypeUserAssigned}
        THEN ret' = [list |-> <<>>] /\ err' = NoError
        ELSE (\A raw \in DOMAIN obj.IdentityIds : Parses(raw)) =>
               /\ err' = NoError
               /\ ret' # Nil
               /\ Len(ret'.list) = 1
               /\ ElemType(op', ret'.list[1]) = normalizeType(obj.Type)
               /\ \E order \in Perms(DOMAIN obj.IdentityIds) :
                     ElemIds(op', ret'.list[1]) = [i \in 1..Len(order) |-> Rendered(order[i])]
               /\ ElemPrincipalId(op', ret'.list[1]) = obj.PrincipalId
               /\ ElemTenantId(op', ret'.list[1]) = obj.TenantId

C9_FlattenResult == [][C9_Step]_vars

C9_Witness ==
    /\ op = "FlattenUntyped"
    /\ err = NoError
    /\ ret # Nil
    /\ Len(ret.list) = 1
    /\ ret.list[1].identity_ids = <<"/resourceGroups/a", "/resourceGroups/a">>
    /\ ret.list[1].principal_id = "principal-1"

(* C10: a Flatten call changes nothing of its input but the kind, which    *)
(* becomes the normalized kind, whether it returns a list or a parse       *)
(* error; Serialize changes nothing of its input.                          *)
C10_Step ==
    /\ (op' \in FlattenOps /\ obj = Nil) => obj' = Nil
    /\ (op' \in FlattenOps /\ obj # Nil) =>
          /\ obj' # Nil
          /\ obj'.Type = normalizeType(obj.Type)
          /\ obj'.IdentityIds = obj.IdentityIds
          /\ obj'.PrincipalId = obj.PrincipalId
          /\ obj'.TenantId = obj.TenantId
    /\ op' = "Serialize" => obj' = obj

C10_Frame == [][C10_Step]_vars

C10_Witness ==
    /\ op = "FlattenTyped"
    /\ err # NoError
    /\ obj # Nil
    /\ obj.Type = TypeUserAssigned
    /\ len(obj.IdentityIds) = 2
    /\ obj.PrincipalId = "principal-1"

====
